---- MODULE Spec2Model ----
(***************************************************************************)
(* The targetcli root node (targetcli/ui_root.py, class UIRoot): the       *)
(* commands saveconfig, restoreconfig, clearconfig, version and sessions,  *)
(* and the refresh of the root's children.                                 *)
(*                                                                         *)
(* The file system is a map from paths to files (content and permission    *)
(* mode).  A path is a number: path p + 1 is path p with ".backup"         *)
(* appended, so the paths form the chain f, f.backup, f.backup.backup ...  *)
(* File content is a sequence of tokens of the JSON text.                  *)
(*                                                                         *)
(* The backend (rtslib's RTSRoot) is not part of this repository; it is    *)
(* modelled from the contract spec.md gives for it.                        *)
(***************************************************************************)
EXTENDS Integers, Sequences, FiniteSets, TLC

VARIABLES
    as_root,         \* UIRoot.as_root, set by the constructor
    files,           \* the file system: path -> Absent or [content, mode]
    config,          \* the backend's configuration (what dump() returns)
    fabric_modules,  \* the fabric modules the backend reports
    sessions,        \* the backend's open sessions, in enumeration order
    children,        \* UIRoot._children
    gen,             \* identity of the nodes the last refresh created
    pc,              \* position inside saveconfig, "idle" between commands
    cmd,             \* the command running or last run, with its arguments
    outcome,         \* how the last command ended
    out,             \* the console lines the last sessions command displayed
    errsid,          \* the sid named by the last "no session found" failure
    prev,            \* history: the target file as saveconfig found it
    origin,          \* history: the configuration each saved file was dumped from
    handed,          \* history: the snapshot the last command handed to restore()
    refreshed        \* history: whether the last command ran refresh()

vars == <<as_root, files, config, fabric_modules, sessions, children, gen, pc,
          cmd, outcome, out, errsid, prev, origin, handed, refreshed>>

-----------------------------------------------------------------------------
(* Bounds of the model *)

\* number of paths of the chain f, f.backup, ...
MaxPath == 2

\* most sessions the backend has open
MaxSessions == 2

-----------------------------------------------------------------------------
(* The file system *)

Paths == 1..MaxPath

\* savefile + ".backup"
BackupOf(savefile) == savefile + 1

\* the paths a save is given in the model: their backup is a path of the model
SavePaths == 1..(MaxPath - 1)

Absent == [content |-> <<>>, mode |-> "absent"]

\* stat.S_IRUSR | stat.S_IWUSR
OwnerRW == "0600"

WorldReadable == "0644"

\* the modes open() creates a file with, as the umask decides
CreateModes == {OwnerRW, WorldReadable}

IsFile(f) == f.mode # "absent"

-----------------------------------------------------------------------------
(* Snapshots and their JSON text *)

\* the keys of a snapshot, in sorted order
SortedKeys == <<"storage_objects", "targets">>

Keys == {SortedKeys[i] : i \in 1..Len(SortedKeys)}

\* what a key of a snapshot holds: nothing (0) or something configured (1)
Values == {0, 1}

Snapshots == [Keys -> Values]

EmptyConfig == [k \in Keys |-> 0]

NoSnapshot == [k \in Keys |-> -1]

LBrace == [t |-> "{", k |-> "", v |-> 0]

RBrace == [t |-> "}", k |-> "", v |-> 0]

Newline == [t |-> "nl", k |-> "", v |-> 0]

Member(key, val) == [t |-> "member", k |-> key, v |-> val]

\* json.dumps(snapshot, sort_keys=True, indent=2): the members in key order
RECURSIVE Members(_, _)
Members(snapshot, i) ==
    IF i > Len(SortedKeys) THEN <<>>
    ELSE <<Member(SortedKeys[i], snapshot[SortedKeys[i]])>> \o Members(snapshot, i + 1)

\* a serialiser that forgets the last key
DumpsDropLast(snapshot) ==
    <<LBrace>> \o SubSeq(Members(snapshot, 1), 1, Len(SortedKeys) - 1) \o <<RBrace>>

Dumps(snapshot) == <<LBrace>> \o Members(snapshot, 1) \o <<RBrace>>

\* json.loads ignores white space after the document
StripTrailing(text) ==
    IF Len(text) > 0 /\ text[Len(text)] = Newline
    THEN SubSeq(text, 1, Len(text) - 1)
    ELSE text

\* json.loads accepts the text: an object, every token between the braces a member
Parses(text) ==
    LET doc == StripTrailing(text) IN
    /\ Len(doc) >= 2
    /\ doc[1] = LBrace
    /\ doc[Len(doc)] = RBrace
    /\ \A i \in 2..(Len(doc) - 1) : doc[i].t = "member"

\* json.loads(text) for a text it accepts: the object's members as a dictionary;
\* of two members with one key the later wins
Loads(text) ==
    LET doc == StripTrailing(text)
        ks  == {doc[i].k : i \in 2..(Len(doc) - 1)}
        last(key) == CHOOSE i \in 2..(Len(doc) - 1) :
                        /\ doc[i].k = key
                        /\ \A j \in 2..(Len(doc) - 1) : doc[j].k = key => j <= i
    IN [key \in ks |-> doc[last(key)].v]

-----------------------------------------------------------------------------
(* The backend: rtslib's RTSRoot, by its contract *)

\* RTSRoot().dump()
BackendDump == config

\* the keys of the snapshot that name something to create
Applicable(snapshot) == {k \in DOMAIN snapshot : k \in Keys /\ snapshot[k] # 0}

\* the keys of the snapshot that meet configuration already in place
Conflicts(snapshot, base) == {k \in Applicable(snapshot) : base[k] # 0}

\* RTSRoot().restore(snapshot, clear_existing) with the items in `failed` not
\* applied: the configuration it leaves
BackendRestore(snapshot, clear_existing, failed) ==
    LET base == IF clear_existing THEN EmptyConfig ELSE config IN
    [k \in Keys |-> IF k \in Applicable(snapshot) \ failed THEN snapshot[k] ELSE base[k]]

\* the items restore() may fail to apply: those that meet existing configuration
MayFail(snapshot, clear_existing) ==
    Conflicts(snapshot, IF clear_existing THEN EmptyConfig ELSE config)

FabricNames == {"iscsi"}

-----------------------------------------------------------------------------
(* The node tree *)

Node(kind, name, g) == [kind |-> kind, name |-> name, gen |-> g]

\* a refresh that keeps the children it finds
RefreshKeeping(old, fms, g) ==
    old \cup {Node("backstores", "", g)} \cup {Node("fabric", fm, g) : fm \in fms}

\* UIRoot.refresh: the children after it, the new nodes being of generation g
Refresh(old, fms, g) ==
    {Node("backstores", "", g)} \cup {Node("fabric", fm, g) : fm \in fms}

NextGen(g) == 1 - g

-----------------------------------------------------------------------------
(* Commands *)

\* sid=None
NoSid == <<"None">>

Command(name, savefile, flag) ==
    [name |-> name, savefile |-> savefile, flag |-> flag, action |-> "", sid |-> NoSid]

NoCommand == Command("none", 0, FALSE)

\* UINode.assert_root: raises unless the shell runs as root
assert_root == as_root

\* what every command leaves alone unless it says otherwise
NoHistory ==
    /\ prev' = Absent
    /\ handed' = NoSnapshot
    /\ refreshed' = FALSE

Denied ==
    /\ outcome' = "denied"
    /\ NoHistory
    /\ UNCHANGED <<files, origin, config, fabric_modules, children, gen, pc>>

NoOrigin == NoSnapshot

-----------------------------------------------------------------------------
(* saveconfig *)

\* a move that leaves an existing backup alone
MoveKeepingBackup(fs, savefile) ==
    IF IsFile(fs[savefile]) /\ ~IsFile(fs[BackupOf(savefile)])
    THEN [fs EXCEPT ![BackupOf(savefile)] = fs[savefile], ![savefile] = Absent]
    ELSE fs

\* shutil.move(savefile, backupfile) inside try/except IOError: the rename
\* replaces the backup; a missing savefile raises IOError, which is swallowed
ShutilMove(fs, savefile) ==
    IF IsFile(fs[savefile])
    THEN [fs EXCEPT ![BackupOf(savefile)] = fs[savefile], ![savefile] = Absent]
    ELSE fs

\* open(savefile, "w+"): truncates an existing file, creates a missing one
OpenW(fs, savefile, createmode) ==
    [fs EXCEPT ![savefile] =
        [content |-> <<>>,
         mode |-> IF IsFile(fs[savefile]) THEN fs[savefile].mode ELSE createmode]]

\* an fchmod that is forgotten
FchmodNothing(fs, savefile) == fs

\* os.fchmod(f.fileno(), stat.S_IRUSR | stat.S_IWUSR)
Fchmod(fs, savefile) == [fs EXCEPT ![savefile].mode = OwnerRW]

\* f.write(text) writing the first n tokens of text
Write(fs, savefile, text, n) ==
    [fs EXCEPT ![savefile].content = @ \o SubSeq(text, 1, n)]

\* ui_command_saveconfig up to open(): assert_root, the backup, the open
SaveConfig(savefile) ==
    /\ pc = "idle"
    /\ cmd' = Command("saveconfig", savefile, FALSE)
    /\ UNCHANGED <<as_root, sessions, out, errsid>>
    /\ IF ~assert_root
       THEN Denied
       ELSE /\ prev' = files[savefile]
            /\ handed' = NoSnapshot
            /\ refreshed' = FALSE
            /\ origin' = IF IsFile(files[savefile])
                         THEN [origin EXCEPT ![BackupOf(savefile)] = origin[savefile],
                                             ![savefile] = NoOrigin]
                         ELSE [origin EXCEPT ![savefile] = NoOrigin]
            /\ UNCHANGED <<config, fabric_modules, children, gen>>
            /\ \/ \E createmode \in CreateModes :
                    /\ files' = OpenW(ShutilMove(files, savefile), savefile, createmode)
                    /\ pc' = "opened"
                    /\ outcome' = "running"
               \/ /\ files' = ShutilMove(files, savefile)   \* open() raises
                  /\ pc' = "idle"
                  /\ outcome' = "failed"

\* the fchmod of the open file
SaveFchmod ==
    /\ pc = "opened"
    /\ files' = Fchmod(files, cmd.savefile)
    /\ pc' = "restricted"
    /\ UNCHANGED <<as_root, config, fabric_modules, sessions, children, gen, cmd,
                   outcome, out, errsid, prev, origin, handed, refreshed>>

\* f.write(json.dumps(RTSRoot().dump(), sort_keys=True, indent=2)).  A write
\* that fails part way leaves a proper prefix of the text; the prefix of one
\* token stands for all of them, none of which json.loads accepts
SaveWrite ==
    /\ pc = "restricted"
    /\ UNCHANGED <<as_root, config, fabric_modules, sessions, children, gen, cmd,
                   out, errsid, prev, origin, handed, refreshed>>
    /\ LET text == Dumps(BackendDump) IN
       \/ /\ files' = Write(files, cmd.savefile, text, Len(text))
          /\ pc' = "written"
          /\ outcome' = "running"
       \/ /\ UNCHANGED files                                 \* dump() raises
          /\ pc' = "idle"
          /\ outcome' = "failed"
       \/ /\ files' = Write(files, cmd.savefile, text, 1)      \* the write fails
          /\ pc' = "idle"                                     \* part way
          /\ outcome' = "failed"

\* f.write("\n"), the close, the log line
SaveNewline ==
    /\ pc = "written"
    /\ pc' = "idle"
    /\ UNCHANGED <<as_root, config, fabric_modules, sessions, children, gen, cmd,
                   out, errsid, prev, handed, refreshed>>
    /\ \/ /\ files' = Write(files, cmd.savefile, <<Newline>>, 1)
          /\ origin' = [origin EXCEPT ![cmd.savefile] = config]
          /\ outcome' = "saved"
       \/ /\ UNCHANGED <<files, origin>>                     \* the write fails
          /\ outcome' = "failed"

-----------------------------------------------------------------------------
(* restoreconfig *)

\* a restore that clears the backend before it reads the file
RestoreClearFirst(savefile, clear_existing) ==
    /\ pc = "idle"
    /\ cmd' = Command("restoreconfig", savefile, clear_existing)
    /\ UNCHANGED <<as_root, sessions, out, errsid, files, origin, pc>>
    /\ prev' = Absent
    /\ IF ~assert_root
       THEN Denied
       ELSE IF ~IsFile(files[savefile])
       THEN /\ outcome' = "not_found"
            /\ handed' = NoSnapshot
            /\ refreshed' = FALSE
            /\ UNCHANGED <<config, fabric_modules, children, gen>>
       ELSE IF ~Parses(files[savefile].content)
       THEN /\ outcome' = "parse_error"
            /\ config' = IF clear_existing THEN EmptyConfig ELSE config
            /\ handed' = NoSnapshot
            /\ refreshed' = FALSE
            /\ UNCHANGED <<fabric_modules, children, gen>>
       ELSE LET snapshot == Loads(files[savefile].content) IN
            \E failed \in SUBSET MayFail(snapshot, clear_existing),
               fms \in SUBSET FabricNames :
                /\ config' = BackendRestore(snapshot, clear_existing, failed)
                /\ fabric_modules' = fms
                /\ handed' = snapshot
                /\ outcome' = IF Cardinality(failed) # 0
                              THEN "restored_with_errors" ELSE "restored"
                /\ gen' = NextGen(gen)
                /\ children' = Refresh(children, fms, NextGen(gen))
                /\ refreshed' = TRUE

\* a restore that refreshes the tree also when the file is missing
RestoreRefreshAlways(savefile, clear_existing) ==
    /\ pc = "idle"
    /\ cmd' = Command("restoreconfig", savefile, clear_existing)
    /\ UNCHANGED <<as_root, sessions, out, errsid, files, origin, pc>>
    /\ prev' = Absent
    /\ IF ~assert_root
       THEN Denied
       ELSE IF ~IsFile(files[savefile])
       THEN /\ outcome' = "not_found"
            /\ handed' = NoSnapshot
            /\ gen' = NextGen(gen)
            /\ children' = Refresh(children, fabric_modules, NextGen(gen))
            /\ refreshed' = TRUE
            /\ UNCHANGED <<config, fabric_modules>>
       ELSE IF ~Parses(files[savefile].content)
       THEN /\ outcome' = "parse_error"
            /\ handed' = NoSnapshot
            /\ refreshed' = FALSE
            /\ UNCHANGED <<config, fabric_modules, children, gen>>
       ELSE LET snapshot == Loads(files[savefile].content) IN
            \E failed \in SUBSET MayFail(snapshot, clear_existing),
               fms \in SUBSET FabricNames :
                /\ config' = BackendRestore(snapshot, clear_existing, failed)
                /\ fabric_modules' = fms
                /\ handed' = snapshot
                /\ outcome' = IF Cardinality(failed) # 0
                              THEN "restored_with_errors" ELSE "restored"
                /\ gen' = NextGen(gen)
                /\ children' = Refresh(children, fms, NextGen(gen))
                /\ refreshed' = TRUE

\* ui_command_restoreconfig
RestoreConfig(savefile, clear_existing) ==
    /\ pc = "idle"
    /\ cmd' = Command("restoreconfig", savefile, clear_existing)
    /\ UNCHANGED <<as_root, sessions, out, errsid, files, origin, pc>>
    /\ prev' = Absent
    /\ IF ~assert_root
       THEN Denied
       ELSE IF ~IsFile(files[savefile])                  \* not os.path.isfile
       THEN /\ outcome' = "not_found"
            /\ handed' = NoSnapshot
            /\ refreshed' = FALSE
            /\ UNCHANGED <<config, fabric_modules, children, gen>>
       ELSE IF ~Parses(files[savefile].content)          \* json.loads: ValueError
       THEN /\ outcome' = "parse_error"
            /\ handed' = NoSnapshot
            /\ refreshed' = FALSE
            /\ UNCHANGED <<config, fabric_modules, children, gen>>
       ELSE LET snapshot == Loads(files[savefile].content) IN
            \E failed \in SUBSET MayFail(snapshot, clear_existing),
               fms \in SUBSET FabricNames :
                /\ config' = BackendRestore(snapshot, clear_existing, failed)
                /\ fabric_modules' = fms
                /\ handed' = snapshot
                /\ outcome' = IF Cardinality(failed) # 0
                              THEN "restored_with_errors" ELSE "restored"
                /\ gen' = NextGen(gen)
                /\ children' = Refresh(children, fms, NextGen(gen))
                /\ refreshed' = TRUE

-----------------------------------------------------------------------------
(* clearconfig, version *)

\* self.ui_eval_param(confirm, 'bool', False)
EvalBool(confirm) == confirm = "true"

\* a clear that does not ask for root
ClearUnchecked(confirm) ==
    /\ pc = "idle"
    /\ cmd' = Command("clearconfig", 0, EvalBool(confirm))
    /\ UNCHANGED <<as_root, sessions, out, errsid, files, origin, pc>>
    /\ prev' = Absent
    /\ handed' = NoSnapshot
    /\ \E fms \in SUBSET fabric_modules :
          /\ config' = EmptyConfig
          /\ fabric_modules' = fms
          /\ outcome' = "cleared"
          /\ gen' = NextGen(gen)
          /\ children' = Refresh(children, fms, NextGen(gen))
          /\ refreshed' = TRUE

\* ui_command_clearconfig.  RTSRoot().clear_existing(confirm) destroys the
\* configuration when confirm is true; when it is not, the backend either
\* raises or returns having done nothing
ClearConfig(confirm) ==
    /\ pc = "idle"
    /\ cmd' = Command("clearconfig", 0, EvalBool(confirm))
    /\ UNCHANGED <<as_root, sessions, out, errsid, files, origin, pc>>
    /\ prev' = Absent
    /\ IF ~assert_root
       THEN Denied
       ELSE /\ handed' = NoSnapshot
            /\ \/ /\ EvalBool(confirm)
                  /\ \E fms \in SUBSET fabric_modules :
                        /\ config' = EmptyConfig
                        /\ fabric_modules' = fms
                        /\ outcome' = "cleared"
                        /\ gen' = NextGen(gen)
                        /\ children' = Refresh(children, fms, NextGen(gen))
                        /\ refreshed' = TRUE
               \/ /\ ~EvalBool(confirm)                  \* the backend returns
                  /\ outcome' = "cleared"
                  /\ gen' = NextGen(gen)
                  /\ children' = Refresh(children, fabric_modules, NextGen(gen))
                  /\ refreshed' = TRUE
                  /\ UNCHANGED <<config, fabric_modules>>
               \/ /\ ~EvalBool(confirm)                  \* the backend raises
                  /\ outcome' = "failed"
                  /\ refreshed' = FALSE
                  /\ UNCHANGED <<config, fabric_modules, children, gen>>

\* ui_command_version
Version ==
    /\ pc = "idle"
    /\ cmd' = Command("version", 0, FALSE)
    /\ outcome' = "version"
    /\ NoHistory
    /\ UNCHANGED <<as_root, sessions, out, errsid, files, origin, config,
                   fabric_modules, children, gen, pc>>

-----------------------------------------------------------------------------
(* The configuration commands *)

\* the text a successful save writes for a snapshot
SavedText(snapshot) == Dumps(snapshot) \o <<Newline>>

Init ==
    /\ as_root \in BOOLEAN
    /\ config \in Snapshots
    /\ fabric_modules \in SUBSET FabricNames
    /\ sessions = <<>>
    /\ children = {}
    /\ gen = 0
    /\ pc = "idle"
    /\ cmd = NoCommand
    /\ outcome = "none"
    /\ out = <<>>
    /\ errsid = -1
    /\ prev = Absent
    /\ handed = NoSnapshot
    /\ refreshed = FALSE
    /\ \E first \in Snapshots \cup {NoOrigin} :
          /\ origin = [p \in Paths |-> IF p = 1 THEN first ELSE NoOrigin]
          /\ files = [p \in Paths |->
                        IF p = 1 /\ first # NoOrigin
                        THEN [content |-> SavedText(first), mode |-> WorldReadable]
                        ELSE Absent]

Next ==
    \/ \E savefile \in SavePaths : SaveConfig(savefile)
    \/ SaveFchmod
    \/ SaveWrite
    \/ SaveNewline
    \/ \E savefile \in Paths, clear_existing \in BOOLEAN :
          RestoreConfig(savefile, clear_existing)
    \/ \E confirm \in {"none", "true", "false"} : ClearConfig(confirm)
    \/ Version

Spec == Init /\ [][Next]_vars

-----------------------------------------------------------------------------
(* sessions *)

Digits == {"0", "1", "2", "3", "4", "5", "6", "7", "8", "9"}

DigitValue ==
    ("0" :> 0) @@ ("1" :> 1) @@ ("2" :> 2) @@ ("3" :> 3) @@ ("4" :> 4) @@
    ("5" :> 5) @@ ("6" :> 6) @@ ("7" :> 7) @@ ("8" :> 8) @@ ("9" :> 9)

\* int(sid) does not raise ValueError
IsNumber(sid) == Len(sid) > 0 /\ \A i \in 1..Len(sid) : sid[i] \in Digits

\* int(sid)
RECURSIVE IntOf(_)
IntOf(sid) ==
    IF Len(sid) = 0 THEN 0
    ELSE 10 * IntOf(SubSeq(sid, 1, Len(sid) - 1)) + DigitValue[sid[Len(sid)]]

action_list == <<"list", "details">>

\* a line given to indent_print: what it is about, the number it shows, the
\* marker or suffix it carries, its indentation steps
Line(kind, number, detail, steps) ==
    [kind |-> kind, number |-> number, detail |-> detail, steps |-> steps]

\* a filter that lets every session through
MatchesAny(session, sid) == TRUE

\* sid is None or int(sid) == session.id
Matches(session, sid) == sid = NoSid \/ IntOf(sid) = session.id

\* an identity line that shows the marker to everyone
AclLineForAll(session, root) ==
    Line("acl", session.id,
         IF session.authenticate_target THEN "authenticated" ELSE "NOT AUTHENTICATED", 1)

\* the line of the session's access-control entry
AclLine(session, root) ==
    IF root
    THEN Line("acl", session.id,
              IF session.authenticate_target THEN "authenticated"
              ELSE "NOT AUTHENTICATED", 1)
    ELSE Line("acl", session.id, "", 1)

MlunLine(mlun) ==
    Line("lun", mlun.mapped_lun, IF mlun.write_protect THEN " (r)" ELSE " (rw)", 1)

ConnectionLine(connection) == Line("connection", connection.cid, "", 1)

\* what the loop body displays for one session that passes the filter
SessionLines(session, action, root) ==
    <<Line("session", session.id, "", 0)>> \o
    (IF action = "details"
     THEN <<AclLine(session, root)>> \o
          [i \in 1..Len(session.mapped_luns) |-> MlunLine(session.mapped_luns[i])] \o
          [i \in 1..Len(session.connections) |-> ConnectionLine(session.connections[i])]
     ELSE <<>>)

\* what the loop over RTSRoot().sessions displays, from session i on
RECURSIVE Display(_, _, _, _, _)
Display(ss, i, action, sid, root) ==
    IF i > Len(ss) THEN <<>>
    ELSE (IF Matches(ss[i], sid) THEN SessionLines(ss[i], action, root) ELSE <<>>)
         \o Display(ss, i + 1, action, sid, root)

\* found, after the loop
Found(ss, sid) == \E i \in 1..Len(ss) : Matches(ss[i], sid)

\* how the command ends for these sessions and arguments
SessionsOutcome(ss, action, sid) ==
    IF \A i \in 1..Len(action_list) : action_list[i] # action THEN "bad_action"
    ELSE IF sid # NoSid /\ ~IsNumber(sid) THEN "bad_sid"
    ELSE IF ~Found(ss, sid) /\ sid # NoSid THEN "no_session"
    ELSE "ok"

\* what the command has displayed when it ends
SessionsOutput(ss, action, sid, root) ==
    IF SessionsOutcome(ss, action, sid) # "ok" THEN <<>>
    ELSE IF ~Found(ss, sid) THEN <<Line("none", 0, "(no open sessions)", 0)>>
    ELSE Display(ss, 1, action, sid, root)

\* ui_command_sessions
Sessions(action, sid) ==
    /\ pc = "idle"
    /\ cmd' = [name |-> "sessions", savefile |-> 0, flag |-> FALSE,
               action |-> action, sid |-> sid]
    /\ outcome' = SessionsOutcome(sessions, action, sid)
    /\ out' = SessionsOutput(sessions, action, sid, as_root)
    /\ errsid' = IF SessionsOutcome(sessions, action, sid) = "no_session"
                 THEN IntOf(sid) ELSE -1
    /\ NoHistory
    /\ UNCHANGED <<as_root, sessions, files, origin, config, fabric_modules,
                   children, gen, pc>>

\* the sessions the backend may have open: distinct ids
SessionIds == 1..MaxSessions

MappedLuns ==
    {<<>>, <<[mapped_lun |-> 0, write_protect |-> TRUE]>>,
           <<[mapped_lun |-> 0, write_protect |-> FALSE]>>}

SessionRecords ==
    [id : SessionIds, authenticate_target : BOOLEAN, mapped_luns : MappedLuns,
     connections : {<<[cid |-> 0]>>}]

SessionLists ==
    {ss \in UNION {[1..n -> SessionRecords] : n \in 0..MaxSessions} :
        \A i, j \in 1..Len(ss) : ss[i].id = ss[j].id => i = j}

Actions == {"list", "details", "bogus"}

SidArgs ==
    {NoSid, <<"1">>, <<"2">>, <<"3">>, <<"0", "2">>, <<"9">>, <<"x">>, <<"1", "x">>, <<>>}

InitSessions ==
    /\ as_root \in BOOLEAN
    /\ sessions \in SessionLists
    /\ config = EmptyConfig
    /\ fabric_modules = {}
    /\ children = {}
    /\ gen = 0
    /\ pc = "idle"
    /\ cmd = NoCommand
    /\ outcome = "none"
    /\ out = <<>>
    /\ errsid = -1
    /\ prev = Absent
    /\ handed = NoSnapshot
    /\ refreshed = FALSE
    /\ origin = [p \in Paths |-> NoOrigin]
    /\ files = [p \in Paths |-> Absent]

NextSessions == \E action \in Actions, sid \in SidArgs : Sessions(action, sid)

SpecSessions == InitSessions /\ [][NextSessions]_vars

-----------------------------------------------------------------------------
(* Properties *)

Privileged == {"saveconfig", "restoreconfig", "clearconfig"}

\* the root's children are one backstores node and one node per fabric module
\* the backend reports, all of them created by the last refresh
TreeMirrorsBackend ==
    /\ Cardinality({n \in children : n.kind = "backstores"}) = 1
    /\ \A fm \in fabric_modules :
          Cardinality({n \in children : n.kind = "fabric" /\ n.name = fm}) = 1
    /\ \A n \in children :
          n.kind = "backstores" \/ (n.kind = "fabric" /\ n.name \in fabric_modules)
    /\ \A n \in children : n.gen = gen

\* C1: a privileged command (saveconfig, restoreconfig, clearconfig) given
\* without root ends with the authorization error and leaves the files (the
\* configuration file and its .backup), the backend and the node tree as they
\* were, whatever the state and the arguments.
C1_DeniedNoSideEffects ==
    [][(~as_root /\ cmd'.name \in Privileged) =>
          /\ outcome' = "denied"
          /\ pc' = "idle"
          /\ UNCHANGED <<files, config, fabric_modules, sessions, children, gen>>]_vars

C1_Witness ==
    /\ ~as_root
    /\ cmd.name = "clearconfig"
    /\ cmd.flag
    /\ outcome = "denied"
    /\ config # EmptyConfig
    /\ IsFile(files[1])

C3_RefreshAfterChange ==
    [][(\/ config' # config
        \/ fabric_modules' # fabric_modules
        \/ /\ cmd'.name \in {"restoreconfig", "clearconfig"}
           /\ outcome' \in {"restored", "restored_with_errors", "cleared"}) =>
          /\ refreshed'
          /\ TreeMirrorsBackend']_vars

C3_Witness ==
    /\ cmd.name = "restoreconfig"
    /\ outcome = "restored_with_errors"
    /\ fabric_modules # {}
    /\ Cardinality(children) = 1 + Cardinality(fabric_modules)

\* C4: restoreconfig with clear_existing=true of a file that a successful
\* saveconfig wrote from backend state S parses, hands restore() exactly the
\* snapshot dumped from S, and leaves the backend in state S.
C4_RoundTrip ==
    (/\ pc = "idle"
     /\ as_root
     /\ cmd.name = "restoreconfig"
     /\ cmd.flag
     /\ origin[cmd.savefile] # NoOrigin) =>
        /\ outcome = "restored"
        /\ handed = origin[cmd.savefile]
        /\ config = origin[cmd.savefile]

C4_Witness ==
    /\ cmd.name = "restoreconfig"
    /\ cmd.flag
    /\ cmd.savefile = 1
    /\ outcome = "restored"
    /\ files[1].mode = OwnerRW
    /\ origin[1] # EmptyConfig
    /\ config = origin[1]

C6_NotFoundIsNoOp ==
    [][(cmd'.name = "restoreconfig" /\ outcome' = "not_found") =>
          /\ UNCHANGED <<files, config, fabric_modules, sessions, children, gen>>
          /\ handed' = NoSnapshot
          /\ refreshed' = FALSE]_vars

C6_Witness ==
    /\ as_root
    /\ cmd.name = "restoreconfig"
    /\ outcome = "not_found"
    /\ cmd.flag
    /\ config # EmptyConfig
    /\ children = {}

\* C7: without root the sessions command never displays the authentication
\* marker, and what it displays and how it ends are the same for any backend
\* state that differs only in the authentication flags.
C7_AuthMarkerWithheld ==
    (cmd.name = "sessions" /\ ~as_root) =>
        /\ \A i \in 1..Len(out) :
              out[i].detail \notin {"authenticated", "NOT AUTHENTICATED"}
        /\ \A flags \in [1..Len(sessions) -> BOOLEAN] :
              LET other == [i \in 1..Len(sessions) |->
                              [sessions[i] EXCEPT !.authenticate_target = flags[i]]]
              IN /\ SessionsOutput(other, cmd.action, cmd.sid, as_root) = out
                 /\ SessionsOutcome(other, cmd.action, cmd.sid) = outcome

C7_Witness ==
    /\ ~as_root
    /\ cmd.name = "sessions"
    /\ cmd.action = "details"
    /\ outcome = "ok"
    /\ Len(sessions) = 2
    /\ sessions[1].authenticate_target
    /\ ~sessions[2].authenticate_target
    /\ \E i \in 1..Len(out) : out[i].kind = "acl"

IsSummary(line) == line.kind = "session"

\* C8: with a valid action, the command displays a summary line for exactly the
\* sessions whose id is int(sid), in the backend's order (one line when sid is
\* there), and fails "no session found" naming sid exactly when none has that
\* id; with no sid it displays one summary line per session, and with no
\* sessions just the "(no open sessions)" line, without failing.
C8_SessionsFilter ==
    (/\ cmd.name = "sessions"
     /\ cmd.action \in {"list", "details"}
     /\ (cmd.sid = NoSid \/ IsNumber(cmd.sid))) =>
        LET summaries == SelectSeq(out, IsSummary)
            wanted == {i \in 1..Len(sessions) :
                          cmd.sid = NoSid \/ sessions[i].id = IntOf(cmd.sid)}
        IN /\ outcome \in {"ok", "no_session"}
           /\ Len(summaries) = Cardinality(wanted)
           /\ \A i \in wanted :
                 summaries[Cardinality({j \in wanted : j <= i})].number = sessions[i].id
           /\ (outcome = "no_session") <=> (cmd.sid # NoSid /\ wanted = {})
           /\ outcome = "no_session" => (errsid = IntOf(cmd.sid) /\ out = <<>>)
           /\ (cmd.sid # NoSid /\ wanted # {}) => Len(summaries) = 1
           /\ (cmd.sid = NoSid /\ sessions = <<>>) =>
                 (outcome = "ok" /\ out = <<Line("none", 0, "(no open sessions)", 0)>>)

C8_Witness ==
    /\ cmd.name = "sessions"
    /\ cmd.sid = <<"0", "2">>
    /\ outcome = "ok"
    /\ Len(sessions) = 2
    /\ sessions[2].id = 2
    /\ Len(SelectSeq(out, IsSummary)) = 1

\* C9: during and after a saveconfig that got past assert_root, the file at the
\* target path holds data only while its mode is owner read/write, and after a
\* successful save the file is there with that mode.
C9_OwnerOnly ==
    (cmd.name = "saveconfig" /\ outcome \in {"running", "saved", "failed"}) =>
        /\ (IsFile(files[cmd.savefile]) /\ files[cmd.savefile].content # <<>>) =>
              files[cmd.savefile].mode = OwnerRW
        /\ outcome = "saved" =>
              (IsFile(files[cmd.savefile]) /\ files[cmd.savefile].mode = OwnerRW)

C9_Witness ==
    /\ cmd.name = "saveconfig"
    /\ pc = "written"
    /\ files[cmd.savefile].content # <<>>
    /\ files[cmd.savefile].mode = OwnerRW
    /\ prev.mode = WorldReadable

\* C10: between commands, a file at a path saveconfig writes holds one complete
\* serialized snapshot followed by a newline, never an empty or truncated text.
C10_FileAlwaysComplete ==
    pc = "idle" =>
        \A p \in SavePaths :
            IsFile(files[p]) => \E snapshot \in Snapshots : files[p].content = SavedText(snapshot)

====
